---- MODULE Spec2Model ----
(***************************************************************************)
(* Service lifecycle of the Dahlia HTTP server (cmd/server/main.go).       *)
(*                                                                         *)
(* Two units of work run concurrently: the main path (register for         *)
(* signals, wait, shut down with a 5 second context, exit) and the serve   *)
(* goroutine (log, ListenAndServe).  Request handlers run on accepted      *)
(* connections.  The environment delivers SIGINT/SIGTERM, lets the bind    *)
(* succeed or fail, completes requests, and advances time.                 *)
(*                                                                         *)
(* Time is counted in whole units (seconds) from the creation of the       *)
(* shutdown context.  http.Server.Shutdown is modelled by its contract:    *)
(* it closes the listeners, then returns nil once no connection is active, *)
(* or the context's error once the context has expired.                    *)
(***************************************************************************)
EXTENDS Integers, Sequences, FiniteSets, TLC

VARIABLES
    mainPc,        \* position of main(): notify, wait, logShutdown, callShutdown,
                   \*   shutdown, logExited, return, fatal, done
    srvPc,         \* position of the serve goroutine: start, listen, serve, fatal, done
    notified,      \* signal.Notify(quit, SIGINT, SIGTERM) has been executed
    quit,          \* the buffered channel quit (capacity QuitCap)
    delivered,     \* the termination signals delivered to the process so far, each
                   \*   with the lifecycle state it arrived in
    listener,      \* "unbound", "open" or "closed"
    inShutdown,    \* http.Server's inShutdown flag, set by Shutdown
    shutdownErr,   \* result of srv.Shutdown: "pending", "nil" or "deadline"
    ctxElapsed,    \* time units elapsed since context.WithTimeout was called
    accepted,      \* requests ever accepted by the serve loop
    inflight,      \* requests whose handler is running
    completed,     \* requests whose handler has returned its response
    aborted,       \* requests cut off by process termination
    bindAttempts,  \* number of times the listen address has been bound or failed to
    level,         \* the Logger's configured level
    logOut,        \* the records written through the standard logger, in order
    exitStatus,    \* "running", "exit0", "exit1" or "killed" (death by signal)
    env,           \* the process environment: for each variable whether it is set,
                   \*   and its value (a sequence of characters)
    cfg,           \* << >> before config.Load() has run, then << the Config >>
    levelName,     \* the level name handed to logger.New
    loggerReady,   \* logger.New has returned
    logDest,       \* output destination of the standard logger (process-wide)
    thr,           \* the logging call each thread of the logger's callers is in
    now,           \* the wall clock (time.Now), in whole units
    deps,          \* the real status of the database and of redis: "up" or "down"
    route,         \* the route of each request handled by the router, or "none"
    resp,          \* the response written to each request, or NoResponse
    servedAt,      \* the time at which each request's handler ran
    startTime,     \* the package variable startTime of internal/api
    routeTable,    \* the routes registered on the router, in order of registration
    boundPort,     \* << >> while no listener has been bound, then << its port >>
    boundHost      \* << >>, then << the host the listener is bound on >>; the empty
                   \*   host stands for all interfaces

vars == << mainPc, srvPc, notified, quit, delivered, listener, inShutdown,
           shutdownErr, ctxElapsed, accepted, inflight, completed, aborted,
           bindAttempts, level, logOut, exitStatus,
           env, cfg, levelName, loggerReady, logDest, thr,
           now, deps, route, resp, servedAt, startTime, routeTable,
           boundPort, boundHost >>

(***************************************************************************)
(* The state outside the lifecycle proper; the lifecycle steps other than  *)
(* logging leave it alone.                                                 *)
(***************************************************************************)
apiVars == << now, deps, route, resp, servedAt, startTime, routeTable >>

sideVars == << env, cfg, levelName, loggerReady, logDest, thr, apiVars,
              boundPort, boundHost >>

(***************************************************************************)
(* Bounds of the model.                                                    *)
(***************************************************************************)
MaxReq == 2
MaxSignals == 2
MaxClock == 7
NumThreads == 2
MaxPortLen == 3
MaxLog == 2
MaxApiReq == 2
MaxNow == 1

Reqs == 1..MaxReq
Signals == {"SIGINT", "SIGTERM"}

(***************************************************************************)
(* Program constants.                                                      *)
(***************************************************************************)
Deadline == 5
QuitCap == 1
DEBUG == 0
INFO == 1
ERROR == 2
Levels == {DEBUG, INFO, ERROR}

(***************************************************************************)
(* Strings are sequences of one-character strings.                         *)
(***************************************************************************)
UpperLetters ==
    << "A", "B", "C", "D", "E", "F", "G", "H", "I", "J", "K", "L", "M",
       "N", "O", "P", "Q", "R", "S", "T", "U", "V", "W", "X", "Y", "Z" >>

LowerLetters ==
    << "a", "b", "c", "d", "e", "f", "g", "h", "i", "j", "k", "l", "m",
       "n", "o", "p", "q", "r", "s", "t", "u", "v", "w", "x", "y", "z" >>

DigitChars == << "0", "1", "2", "3", "4", "5", "6", "7", "8", "9" >>

IsDigit(c) == \E i \in 1..Len(DigitChars) : DigitChars[i] = c

DigitVal(c) == (CHOOSE i \in 1..Len(DigitChars) : DigitChars[i] = c) - 1

(***************************************************************************)
(* strings.ToLower, on the letters A-Z.                                    *)
(***************************************************************************)
ToLowerChar(c) ==
    IF \E i \in 1..Len(UpperLetters) : UpperLetters[i] = c
      THEN LowerLetters[CHOOSE i \in 1..Len(UpperLetters) : UpperLetters[i] = c]
      ELSE c

ToLower(str) == [i \in 1..Len(str) |-> ToLowerChar(str[i])]

(***************************************************************************)
(* Configuration (internal/config).  The names of the variables read and   *)
(* the defaults written into Load.                                         *)
(***************************************************************************)
EnvKeys == {"PORT", "HOST", "ENV", "LOG_LEVEL", "DATABASE_URL", "REDIS_URL",
            "JWT_SECRET"}

DefaultPort == 8080

DefaultHost ==
    << "0", ".", "0", ".", "0", ".", "0" >>

DefaultEnvironment ==
    << "d", "e", "v", "e", "l", "o", "p", "m", "e", "n", "t" >>

DefaultLogLevel ==
    << "i", "n", "f", "o" >>

DefaultDatabaseURL ==
    << "p", "o", "s", "t", "g", "r", "e", "s", ":", "/", "/", "l", "o",
       "c", "a", "l", "h", "o", "s", "t", "/", "d", "a", "h", "l", "i",
       "a", "?", "s", "s", "l", "m", "o", "d", "e", "=", "d", "i", "s",
       "a", "b", "l", "e" >>

DefaultRedisURL ==
    << "r", "e", "d", "i", "s", ":", "/", "/", "l", "o", "c", "a", "l",
       "h", "o", "s", "t", ":", "6", "3", "7", "9", "/", "0" >>

DefaultJWTSecret ==
    << "y", "o", "u", "r", "-", "s", "e", "c", "r", "e", "t", "-", "k",
       "e", "y", "-", "c", "h", "a", "n", "g", "e", "-", "i", "n", "-",
       "p", "r", "o", "d", "u", "c", "t", "i", "o", "n" >>

(***************************************************************************)
(* os.Getenv: the value of the variable, empty when it is not set.         *)
(***************************************************************************)
Getenv(e, key) == IF e[key].set THEN e[key].val ELSE << >>

(***************************************************************************)
(* The largest magnitudes of an int (64 bits), as decimal digits:          *)
(* 9223372036854775807 for a value >= 0, 9223372036854775808 for one < 0.  *)
(***************************************************************************)
IntMaxDigits ==
    << 9, 2, 2, 3, 3, 7, 2, 0, 3, 6, 8, 5, 4, 7, 7, 5, 8, 0, 7 >>

IntMinDigits ==
    << 9, 2, 2, 3, 3, 7, 2, 0, 3, 6, 8, 5, 4, 7, 7, 5, 8, 0, 8 >>

RECURSIVE SkipZeros(_)
SkipZeros(d) ==
    IF Len(d) > 1 /\ d[1] = "0" THEN SkipZeros(Tail(d)) ELSE d

\* The decimal number written by the digit characters d is above the limit.
DigitsExceed(d, limit) ==
    LET m == SkipZeros(d)
    IN  \/ Len(m) > Len(limit)
        \/ /\ Len(m) = Len(limit)
           /\ \E i \in 1..Len(m) :
                 /\ \A j \in 1..(i - 1) : DigitVal(m[j]) = limit[j]
                 /\ DigitVal(m[i]) > limit[i]

\* n = n*10 + digit, from the left.
RECURSIVE AccumulateDigits(_, _)
AccumulateDigits(n, d) ==
    IF d = << >> THEN n
    ELSE AccumulateDigits(n * 10 + DigitVal(d[1]), Tail(d))

(***************************************************************************)
(* strconv.Atoi: an optional sign, then decimal digits only.  The result   *)
(* is a syntax error for anything else, a range error for a number that    *)
(* does not fit an int, and the number otherwise.  (The value that comes   *)
(* with an error is not represented: Load does not use it.)                *)
(***************************************************************************)
Atoi(str) ==
    LET signed == str # << >> /\ str[1] \in {"+", "-"}
        neg    == str # << >> /\ str[1] = "-"
        d      == IF signed THEN Tail(str) ELSE str
    IN  IF d = << >> \/ (\E i \in 1..Len(d) : ~IsDigit(d[i]))
          THEN [err |-> "syntax", val |-> 0]
        ELSE IF DigitsExceed(d, IF neg THEN IntMinDigits ELSE IntMaxDigits)
          THEN [err |-> "range", val |-> 0]
        ELSE [err |-> "nil",
              val |-> IF neg THEN 0 - AccumulateDigits(0, d)
                             ELSE AccumulateDigits(0, d)]

\* Faulty variant of getEnv: a variable that is set but empty keeps its
\* empty value.
getEnvKeepsEmpty(e, key, defaultValue) ==
    IF e[key].set THEN e[key].val ELSE defaultValue

(***************************************************************************)
(* config.getEnv: the value when it is not empty, the default otherwise.   *)
(***************************************************************************)
getEnv(e, key, defaultValue) ==
    IF Getenv(e, key) # << >> THEN Getenv(e, key) ELSE defaultValue

\* Faulty variant of Load: a parsed port is kept only when it is positive.
LoadPositivePortOnly(e) ==
    LET p == Getenv(e, "PORT")
    IN  [ Port |-> IF p # << >> /\ Atoi(p).err = "nil" /\ Atoi(p).val > 0
                     THEN Atoi(p).val ELSE DefaultPort,
          Host |-> getEnv(e, "HOST", DefaultHost),
          Environment |-> getEnv(e, "ENV", DefaultEnvironment),
          LogLevel |-> getEnv(e, "LOG_LEVEL", DefaultLogLevel),
          DatabaseURL |-> getEnv(e, "DATABASE_URL", DefaultDatabaseURL),
          RedisURL |-> getEnv(e, "REDIS_URL", DefaultRedisURL),
          JWTSecret |-> getEnv(e, "JWT_SECRET", DefaultJWTSecret) ]

(***************************************************************************)
(* config.Load: PORT replaces the default only when it is not empty and    *)
(* Atoi reports no error.                                                  *)
(***************************************************************************)
Load(e) ==
    LET p == Getenv(e, "PORT")
    IN  [ Port        |-> IF p # << >> /\ Atoi(p).err = "nil"
                            THEN Atoi(p).val ELSE DefaultPort,
          Host        |-> getEnv(e, "HOST", DefaultHost),
          Environment |-> getEnv(e, "ENV", DefaultEnvironment),
          LogLevel    |-> getEnv(e, "LOG_LEVEL", DefaultLogLevel),
          DatabaseURL |-> getEnv(e, "DATABASE_URL", DefaultDatabaseURL),
          RedisURL    |-> getEnv(e, "REDIS_URL", DefaultRedisURL),
          JWTSecret   |-> getEnv(e, "JWT_SECRET", DefaultJWTSecret) ]

(***************************************************************************)
(* Logger (pkg/logger).  New lower-cases the name and maps it to a level;  *)
(* any other name gives INFO.                                              *)
(***************************************************************************)
NameDebug ==
    << "d", "e", "b", "u", "g" >>

NameInfo ==
    << "i", "n", "f", "o" >>

NameError ==
    << "e", "r", "r", "o", "r" >>

\* Faulty variant of New: the name is compared as it is written.
NewCaseSensitive(name) ==
    IF name = NameDebug THEN DEBUG
    ELSE IF name = NameInfo THEN INFO
    ELSE IF name = NameError THEN ERROR
    ELSE INFO

New(name) ==
    LET l == ToLower(name)
    IN  IF l = NameDebug THEN DEBUG
        ELSE IF l = NameInfo THEN INFO
        ELSE IF l = NameError THEN ERROR
        ELSE INFO

(***************************************************************************)
(* A record written through the standard logger goes to the destination    *)
(* set at that moment.  Each emit operation writes unless the configured   *)
(* level is above its own; log.Fatal / log.Fatalf of the standard library  *)
(* always write.                                                           *)
(***************************************************************************)
LogRecord(tag, msg) == [tag |-> tag, msg |-> msg, dest |-> logDest]

\* Faulty variant of LoggerDebug: debug records are written up to level INFO.
LoggerDebugAtInfo(out, msg) ==
    IF level <= INFO THEN Append(out, LogRecord("[DEBUG]", msg)) ELSE out

LoggerDebug(out, msg) ==
    IF level <= DEBUG THEN Append(out, LogRecord("[DEBUG]", msg)) ELSE out

LoggerInfo(out, msg) ==
    IF level <= INFO THEN Append(out, LogRecord("[INFO]", msg)) ELSE out

\* Faulty variant of StdLogFatal: the record is subject to the Logger's
\* level, as an info record is.
StdLogFatalAtInfo(out, msg) ==
    IF level <= INFO THEN Append(out, LogRecord("", msg)) ELSE out

StdLogFatal(out, msg) == Append(out, LogRecord("", msg))

(***************************************************************************)
(* The callers of the logger's emit operations.  Each is idle or inside    *)
(* an Error call, at the statement it executes next; overlap collects the  *)
(* kinds of calls made by others during its current call, and before is    *)
(* the destination that was set when the call began.                       *)
(***************************************************************************)
Threads == 1..NumThreads

NoCall == [op |-> "none", pc |-> "idle", overlap |-> {}, before |-> "stderr"]

(***************************************************************************)
(* The HTTP API (internal/api).  startTime is set when the package is      *)
(* initialised, which is where the clock of the model starts.  A handler   *)
(* is given the value time.Now() has when it runs.                         *)
(***************************************************************************)
ApiReqs == 1..MaxApiReq

Routes == {"/health", "/ready", "/api/v1/status", "/api/v1/info", "/metrics"}

Dependencies == {"database", "redis"}

NoResponse == [code |-> 0]

\* Faulty variant of healthCheck: the timestamp is the start time of the
\* process.
healthCheckStartTime(t) ==
    [ code |-> 200,
      body |-> [status |-> "healthy", timestamp |-> startTime] ]

healthCheck(t) ==
    [ code |-> 200,
      body |-> [status |-> "healthy", timestamp |-> t] ]

\* Faulty variant of readinessCheck: the dependencies are probed.
readinessCheckProbing(t) ==
    [ code |-> IF \A d \in Dependencies : deps[d] = "up" THEN 200 ELSE 503,
      body |-> [ status |-> IF \A d \in Dependencies : deps[d] = "up"
                              THEN "ready" ELSE "not ready",
                 timestamp |-> t,
                 services |-> [ database |-> IF deps["database"] = "up"
                                               THEN "connected" ELSE "disconnected",
                                redis |-> IF deps["redis"] = "up"
                                            THEN "connected" ELSE "disconnected" ] ] ]

readinessCheck(t) ==
    [ code |-> 200,
      body |-> [ status |-> "ready",
                 timestamp |-> t,
                 services |-> [database |-> "connected", redis |-> "connected"] ] ]

\* Faulty variant of getStatus: the uptime counts down from the start time.
getStatusCountingDown(t) ==
    [ code |-> 200,
      body |-> [ service |-> "dahlia", version |-> "1.0.0",
                 uptime |-> startTime - t, status |-> "running" ] ]

getStatus(t) ==
    [ code |-> 200,
      body |-> [ service |-> "dahlia", version |-> "1.0.0",
                 uptime |-> t - startTime, status |-> "running" ] ]

getInfo(t) ==
    [ code |-> 200,
      body |-> [ name |-> "Dahlia",
                 description |-> "Modern multi-language web server template",
                 version |-> "1.0.0",
                 languages |-> << "Go", "Rust", "Python" >>,
                 features |-> << "RESTful API", "Health checks",
                                 "Graceful shutdown",
                                 "Multi-language architecture",
                                 "Container ready" >> ] ]

\* Faulty variant of metricsHandler: the counter counts the requests the
\* instance has served.
metricsHandlerCounting(t) ==
    [code |-> 200,
     body |-> [dahlia_uptime_seconds |-> t - startTime,
               dahlia_requests_total |-> Cardinality(completed)]]

metricsHandler(t) ==
    [ code |-> 200,
      body |-> [ dahlia_uptime_seconds |-> t - startTime,
                 dahlia_requests_total |-> 0 ] ]

\* SetupRoutes, lines 19-33: five GET routes are added to the router.
SetupRoutes(table) ==
    table \o
    << [method |-> "GET", path |-> "/health", handler |-> "healthCheck"],
       [method |-> "GET", path |-> "/ready", handler |-> "readinessCheck"],
       [method |-> "GET", path |-> "/api/v1/status", handler |-> "getStatus"],
       [method |-> "GET", path |-> "/api/v1/info", handler |-> "getInfo"],
       [method |-> "GET", path |-> "/metrics", handler |-> "metricsHandler"] >>

\* The router has no route for the request.
NotFound == [code |-> 404, body |-> "404 page not found"]

\* The router runs the handler registered for the path of a GET request.
Handler(rt, t) ==
    LET found == {i \in 1..Len(routeTable) :
                     routeTable[i].method = "GET" /\ routeTable[i].path = rt}
    IN  IF found = {} THEN NotFound
        ELSE LET h == routeTable[CHOOSE i \in found : \A j \in found : i <= j].handler
             IN  CASE h = "healthCheck" -> healthCheck(t)
                   [] h = "readinessCheck" -> readinessCheck(t)
                   [] h = "getStatus" -> getStatus(t)
                   [] h = "getInfo" -> getInfo(t)
                   [] h = "metricsHandler" -> metricsHandler(t)

\* No request has been routed; the dependencies are up; the router holds
\* the given routes.
ApiIdle(table) ==
    /\ startTime = 0
    /\ now = startTime
    /\ routeTable = table
    /\ boundPort = << >>
    /\ boundHost = << >>
    /\ deps = [d \in Dependencies |-> "up"]
    /\ route = [r \in ApiReqs |-> "none"]
    /\ resp = [r \in ApiReqs |-> NoResponse]
    /\ servedAt = [r \in ApiReqs |-> startTime]

(***************************************************************************)
(* The environments the lifecycle is run with: every variable unset, or    *)
(* LOG_LEVEL set to a level name.                                          *)
(***************************************************************************)
Unset == [set |-> FALSE, val |-> << >>]

SetTo(str) == [set |-> TRUE, val |-> str]

NoEnv == [k \in EnvKeys |-> Unset]

RunEnvs == {NoEnv} \cup {[NoEnv EXCEPT !["LOG_LEVEL"] = SetTo(n)] :
                            n \in {NameDebug, NameError}}

Alive == exitStatus = "running"

(***************************************************************************)
(* The lifecycle state of the specification, read off the program state.   *)
(***************************************************************************)
ServiceState ==
    IF shutdownErr = "deadline" THEN "FailedShutdown"
    ELSE IF shutdownErr = "nil" THEN "Stopped"
    ELSE IF inShutdown THEN "Draining"
    ELSE IF listener = "open" THEN "Serving"
    ELSE "NotStarted"

Init ==
    /\ mainPc = "notify"
    /\ srvPc = "start"
    /\ notified = FALSE
    /\ quit = << >>
    /\ delivered = << >>
    /\ listener = "unbound"
    /\ inShutdown = FALSE
    /\ shutdownErr = "pending"
    /\ ctxElapsed = 0
    /\ accepted = {}
    /\ inflight = {}
    /\ completed = {}
    /\ aborted = {}
    /\ bindAttempts = 0
    /\ env \in RunEnvs
    /\ cfg = << Load(env) >>
    /\ levelName = cfg[1].LogLevel
    /\ level = New(levelName)
    /\ loggerReady = TRUE
    /\ logDest = "stderr"
    /\ thr = [t \in Threads |-> NoCall]
    /\ logOut = << >>
    /\ exitStatus = "running"
    /\ ApiIdle(SetupRoutes(<< >>))


(***************************************************************************)
(* Process termination: every handler still running is cut off.            *)
(***************************************************************************)
ProcessEnds(status) ==
    /\ exitStatus' = status
    /\ aborted' = aborted \cup inflight
    /\ inflight' = {}

(***************************************************************************)
(* Faulty variant of DeliverSignal: every signal that arrives during the   *)
(* shutdown starts the shutdown context afresh.                            *)
(***************************************************************************)
DeliverSignalRestartsTimer(s) ==
    /\ Alive
    /\ Len(delivered) < MaxSignals
    /\ delivered' = Append(delivered, << s, ServiceState >>)
    /\ IF ~notified
         THEN /\ ProcessEnds("killed")
              /\ quit' = quit
         ELSE /\ quit' = IF Len(quit) < QuitCap THEN Append(quit, s) ELSE quit
              /\ UNCHANGED << exitStatus, aborted, inflight >>
    /\ ctxElapsed' = IF inShutdown THEN 0 ELSE ctxElapsed
    /\ UNCHANGED << mainPc, srvPc, notified, listener, inShutdown, shutdownErr,
                    accepted, completed, bindAttempts, level, logOut >>
    /\ UNCHANGED sideVars

(***************************************************************************)
(* Environment: a termination signal reaches the process.  Before          *)
(* signal.Notify has run the Go runtime's default disposition applies and  *)
(* the process dies from the signal.  Afterwards the signal package does a *)
(* non-blocking send on quit: the signal is dropped when the buffer is     *)
(* full.                                                                   *)
(***************************************************************************)
DeliverSignal(s) ==
    /\ Alive
    /\ Len(delivered) < MaxSignals
    /\ delivered' = Append(delivered, << s, ServiceState >>)
    /\ IF ~notified
         THEN /\ ProcessEnds("killed")
              /\ quit' = quit
         ELSE /\ quit' = IF Len(quit) < QuitCap THEN Append(quit, s) ELSE quit
              /\ UNCHANGED << exitStatus, aborted, inflight >>
    /\ UNCHANGED << mainPc, srvPc, notified, listener, inShutdown, shutdownErr,
                    ctxElapsed, accepted, completed, bindAttempts, level, logOut >>
    /\ UNCHANGED sideVars

(***************************************************************************)
(* main, lines 52-53: quit := make(chan os.Signal, 1); signal.Notify(...)  *)
(***************************************************************************)
MainNotify ==
    /\ Alive
    /\ mainPc = "notify"
    /\ notified' = TRUE
    /\ mainPc' = "wait"
    /\ UNCHANGED << srvPc, quit, delivered, listener, inShutdown, shutdownErr,
                    ctxElapsed, accepted, inflight, completed, aborted,
                    bindAttempts, level, logOut, exitStatus >>
    /\ UNCHANGED sideVars

(***************************************************************************)
(* Faulty variant of MainWait: a receive that does not block (a select     *)
(* with a default branch), so main goes on without any signal.             *)
(***************************************************************************)
MainWaitNonBlocking ==
    /\ Alive
    /\ mainPc = "wait"
    /\ quit' = IF quit # << >> THEN Tail(quit) ELSE quit
    /\ mainPc' = "logShutdown"
    /\ UNCHANGED << srvPc, notified, delivered, listener, inShutdown, shutdownErr,
                    ctxElapsed, accepted, inflight, completed, aborted,
                    bindAttempts, level, logOut, exitStatus >>
    /\ UNCHANGED sideVars

(***************************************************************************)
(* main, line 54: <-quit blocks until the channel holds a signal.          *)
(***************************************************************************)
MainWait ==
    /\ Alive
    /\ mainPc = "wait"
    /\ quit # << >>
    /\ quit' = Tail(quit)
    /\ mainPc' = "logShutdown"
    /\ UNCHANGED << srvPc, notified, delivered, listener, inShutdown, shutdownErr,
                    ctxElapsed, accepted, inflight, completed, aborted,
                    bindAttempts, level, logOut, exitStatus >>
    /\ UNCHANGED sideVars

(***************************************************************************)
(* Faulty variant of MainLogShutdown: the record is written through        *)
(* logger.Error, which redirects the standard logger and leaves it on      *)
(* stdout.                                                                 *)
(***************************************************************************)
MainLogShutdownAsError ==
    /\ Alive
    /\ mainPc = "logShutdown"
    /\ logOut' = Append(logOut, [tag |-> "[ERROR]", msg |-> "Shutting down server...",
                                 dest |-> "stderr"])
    /\ logDest' = "stdout"
    /\ mainPc' = "callShutdown"
    /\ UNCHANGED << srvPc, notified, quit, delivered, listener, inShutdown,
                    shutdownErr, ctxElapsed, accepted, inflight, completed,
                    aborted, bindAttempts, level, exitStatus >>
    /\ UNCHANGED << env, cfg, levelName, loggerReady, thr, apiVars, boundPort,
                    boundHost >>

(***************************************************************************)
(* main, line 56: logger.Info("Shutting down server...")                   *)
(***************************************************************************)
MainLogShutdown ==
    /\ Alive
    /\ mainPc = "logShutdown"
    /\ logOut' = LoggerInfo(logOut, "Shutting down server...")
    /\ mainPc' = "callShutdown"
    /\ UNCHANGED << srvPc, notified, quit, delivered, listener, inShutdown,
                    shutdownErr, ctxElapsed, accepted, inflight, completed,
                    aborted, bindAttempts, level, exitStatus >>
    /\ UNCHANGED sideVars

(***************************************************************************)
(* Faulty variant of MainCallShutdown: the shutdown leaves the listener    *)
(* open.                                                                   *)
(***************************************************************************)
MainCallShutdownKeepsListening ==
    /\ Alive
    /\ mainPc = "callShutdown"
    /\ ctxElapsed' = 0
    /\ inShutdown' = TRUE
    /\ mainPc' = "shutdown"
    /\ UNCHANGED << srvPc, notified, quit, delivered, listener, shutdownErr,
                    accepted, inflight, completed, aborted, bindAttempts, level,
                    logOut, exitStatus >>
    /\ UNCHANGED sideVars

(***************************************************************************)
(* main, lines 59-62: the context is created with its 5 second timeout and *)
(* srv.Shutdown(ctx) is entered: the server is marked as shutting down and *)
(* its listeners are closed.  Active connections are left alone.           *)
(***************************************************************************)
MainCallShutdown ==
    /\ Alive
    /\ mainPc = "callShutdown"
    /\ ctxElapsed' = 0
    /\ inShutdown' = TRUE
    /\ listener' = IF listener = "open" THEN "closed" ELSE listener
    /\ mainPc' = "shutdown"
    /\ UNCHANGED << srvPc, notified, quit, delivered, shutdownErr, accepted,
                    inflight, completed, aborted, bindAttempts, level, logOut,
                    exitStatus >>
    /\ UNCHANGED sideVars

(***************************************************************************)
(* Faulty variant of CtxDone: the context carries no deadline, as with     *)
(* context.Background() passed to Shutdown.                                *)
(***************************************************************************)
CtxNeverDone == FALSE

(***************************************************************************)
(* The context created on line 59 is done once its timeout has passed.     *)
(***************************************************************************)
CtxDone == ctxElapsed >= Deadline

(***************************************************************************)
(* Shutdown has nothing left to wait for: every connection is idle.        *)
(***************************************************************************)
Quiescent == inflight = {}

(***************************************************************************)
(* Faulty variant of MainShutdownNil: the server is stopped without        *)
(* waiting for the running handlers.                                       *)
(***************************************************************************)
MainShutdownNilNoWait ==
    /\ Alive
    /\ mainPc = "shutdown"
    /\ ~CtxDone
    /\ shutdownErr' = "nil"
    /\ mainPc' = "logExited"
    /\ UNCHANGED << srvPc, notified, quit, delivered, listener, inShutdown,
                    ctxElapsed, accepted, inflight, completed, aborted,
                    bindAttempts, level, logOut, exitStatus >>
    /\ UNCHANGED sideVars

(***************************************************************************)
(* Faulty variant of MainShutdownNil: the test on line 62 is inverted      *)
(* (err == nil), so a clean drain ends in log.Fatal.                       *)
(***************************************************************************)
MainShutdownNilFatal ==
    /\ Alive
    /\ mainPc = "shutdown"
    /\ Quiescent
    /\ ~CtxDone
    /\ shutdownErr' = "nil"
    /\ logOut' = StdLogFatal(logOut, "Server forced to shutdown:")
    /\ ProcessEnds("exit1")
    /\ mainPc' = "fatal"
    /\ UNCHANGED << srvPc, notified, quit, delivered, listener, inShutdown,
                    ctxElapsed, accepted, completed, bindAttempts, level >>
    /\ UNCHANGED sideVars

(***************************************************************************)
(* main, line 62 and 66: srv.Shutdown returns nil; main goes on to the     *)
(* final log call.                                                         *)
(***************************************************************************)
MainShutdownNil ==
    /\ Alive
    /\ mainPc = "shutdown"
    /\ Quiescent
    /\ ~CtxDone
    /\ shutdownErr' = "nil"
    /\ mainPc' = "logExited"
    /\ UNCHANGED << srvPc, notified, quit, delivered, listener, inShutdown,
                    ctxElapsed, accepted, inflight, completed, aborted,
                    bindAttempts, level, logOut, exitStatus >>
    /\ UNCHANGED sideVars

(***************************************************************************)
(* Faulty variant of MainShutdownTimeout: the error is logged without      *)
(* terminating (log.Print in place of log.Fatal) and main runs on to its   *)
(* normal end.                                                             *)
(***************************************************************************)
MainShutdownTimeoutNoExit ==
    /\ Alive
    /\ mainPc = "shutdown"
    /\ CtxDone
    /\ shutdownErr' = "deadline"
    /\ logOut' = StdLogFatal(logOut, "Server forced to shutdown:")
    /\ mainPc' = "logExited"
    /\ UNCHANGED << srvPc, notified, quit, delivered, listener, inShutdown,
                    ctxElapsed, accepted, inflight, completed, aborted,
                    bindAttempts, level, exitStatus >>
    /\ UNCHANGED sideVars

(***************************************************************************)
(* main, lines 62-64: the context expires before the server is quiescent;  *)
(* srv.Shutdown returns the context's error and log.Fatal writes the       *)
(* record and calls os.Exit(1).                                            *)
(***************************************************************************)
MainShutdownTimeout ==
    /\ Alive
    /\ mainPc = "shutdown"
    /\ CtxDone
    /\ shutdownErr' = "deadline"
    /\ logOut' = StdLogFatal(logOut, "Server forced to shutdown:")
    /\ ProcessEnds("exit1")
    /\ mainPc' = "fatal"
    /\ UNCHANGED << srvPc, notified, quit, delivered, listener, inShutdown,
                    ctxElapsed, accepted, completed, bindAttempts, level >>
    /\ UNCHANGED sideVars

(***************************************************************************)
(* Faulty variant of MainLogExited: the shutdown record is written a       *)
(* second time in place of the final record.                               *)
(***************************************************************************)
MainLogExitedRepeatsShutdown ==
    /\ Alive
    /\ mainPc = "logExited"
    /\ logOut' = LoggerInfo(logOut, "Shutting down server...")
    /\ mainPc' = "return"
    /\ UNCHANGED << srvPc, notified, quit, delivered, listener, inShutdown,
                    shutdownErr, ctxElapsed, accepted, inflight, completed,
                    aborted, bindAttempts, level, exitStatus >>
    /\ UNCHANGED sideVars

(***************************************************************************)
(* main, line 66: logger.Info("Server exited")                             *)
(***************************************************************************)
MainLogExited ==
    /\ Alive
    /\ mainPc = "logExited"
    /\ logOut' = LoggerInfo(logOut, "Server exited")
    /\ mainPc' = "return"
    /\ UNCHANGED << srvPc, notified, quit, delivered, listener, inShutdown,
                    shutdownErr, ctxElapsed, accepted, inflight, completed,
                    aborted, bindAttempts, level, exitStatus >>
    /\ UNCHANGED sideVars

(***************************************************************************)
(* main, line 67: main returns and the process exits with status 0.        *)
(***************************************************************************)
MainReturn ==
    /\ Alive
    /\ mainPc = "return"
    /\ ProcessEnds("exit0")
    /\ mainPc' = "done"
    /\ UNCHANGED << srvPc, notified, quit, delivered, listener, inShutdown,
                    shutdownErr, ctxElapsed, accepted, completed, bindAttempts,
                    level, logOut >>
    /\ UNCHANGED sideVars


(***************************************************************************)
(* serve goroutine, line 45: logger.Info("Dahlia server starting ...")     *)
(***************************************************************************)
SrvLogStarting ==
    /\ Alive
    /\ srvPc = "start"
    /\ logOut' = LoggerInfo(logOut, "Dahlia server starting on port")
    /\ srvPc' = "listen"
    /\ UNCHANGED << mainPc, notified, quit, delivered, listener, inShutdown,
                    shutdownErr, ctxElapsed, accepted, inflight, completed,
                    aborted, bindAttempts, level, exitStatus >>
    /\ UNCHANGED sideVars

\* Faulty variant of Addr: the configured host is part of the address.
AddrWithHost(c) == [host |-> c.Host, port |-> c.Port]

(***************************************************************************)
(* main, line 39: Addr: fmt.Sprintf(":%d", cfg.Port).  The host part of    *)
(* the address is empty, which makes the server listen on all interfaces.  *)
(***************************************************************************)
Addr(c) == [host |-> << >>, port |-> c.Port]

(***************************************************************************)
(* srv.Addr is ":<port>" (line 39).  net.Listen accepts the ports 0 to     *)
(* 65535; for port 0 the system picks a free port, here one of two.        *)
(***************************************************************************)
ValidPorts == 0..65535

EphemeralPorts == {49152, 60999}

(***************************************************************************)
(* Faulty variant of SrvListenOK: the goroutine binds the listener first   *)
(* and writes its start-up record afterwards.                              *)
(***************************************************************************)
SrvListenOKBeforeLog ==
    /\ Alive
    /\ srvPc = "start"
    /\ ~inShutdown
    /\ bindAttempts' = bindAttempts + 1
    /\ Addr(cfg[1]).port \in ValidPorts
    /\ \E p \in (IF Addr(cfg[1]).port = 0 THEN EphemeralPorts
                                            ELSE {Addr(cfg[1]).port}) :
          boundPort' = << p >>
    /\ boundHost' = << Addr(cfg[1]).host >>
    /\ listener = "unbound"
    /\ listener' = "open"
    /\ srvPc' = "start"
    /\ UNCHANGED << mainPc, notified, quit, delivered, inShutdown, shutdownErr,
                    ctxElapsed, accepted, inflight, completed, aborted, level,
                    logOut, exitStatus >>
    /\ UNCHANGED << env, cfg, levelName, loggerReady, logDest, thr, apiVars >>

(***************************************************************************)
(* serve goroutine, line 46: srv.ListenAndServe() binds the address and    *)
(* enters the accept loop.                                                 *)
(***************************************************************************)
SrvListenOK ==
    /\ Alive
    /\ srvPc = "listen"
    /\ ~inShutdown
    /\ bindAttempts' = bindAttempts + 1
    /\ Addr(cfg[1]).port \in ValidPorts
    /\ \E p \in (IF Addr(cfg[1]).port = 0 THEN EphemeralPorts
                                            ELSE {Addr(cfg[1]).port}) :
          boundPort' = << p >>
    /\ boundHost' = << Addr(cfg[1]).host >>
    /\ listener' = "open"
    /\ srvPc' = "serve"
    /\ UNCHANGED << mainPc, notified, quit, delivered, inShutdown, shutdownErr,
                    ctxElapsed, accepted, inflight, completed, aborted, level,
                    logOut, exitStatus >>
    /\ UNCHANGED << env, cfg, levelName, loggerReady, logDest, thr, apiVars >>

(***************************************************************************)
(* Faulty variant of SrvListenFail: the bind is tried again after a        *)
(* failure.                                                                *)
(***************************************************************************)
SrvListenFailRetry ==
    /\ Alive
    /\ srvPc = "listen"
    /\ ~inShutdown
    /\ bindAttempts' = bindAttempts + 1
    /\ logOut' = logOut
    /\ srvPc' = "listen"
    /\ UNCHANGED << mainPc, notified, quit, delivered, listener, inShutdown,
                    shutdownErr, ctxElapsed, accepted, inflight, completed,
                    aborted, level, exitStatus >>
    /\ UNCHANGED sideVars

(***************************************************************************)
(* Faulty variant of SrvListenFail: the failure is logged without          *)
(* terminating (log.Printf in place of log.Fatalf); the goroutine ends and *)
(* main keeps waiting.                                                     *)
(***************************************************************************)
SrvListenFailNoExit ==
    /\ Alive
    /\ srvPc = "listen"
    /\ ~inShutdown
    /\ bindAttempts' = bindAttempts + 1
    /\ logOut' = StdLogFatal(logOut, "Failed to start server:")
    /\ srvPc' = "fatal"
    /\ UNCHANGED << mainPc, notified, quit, delivered, listener, inShutdown,
                    shutdownErr, ctxElapsed, accepted, inflight, completed,
                    aborted, level, exitStatus >>
    /\ UNCHANGED sideVars

(***************************************************************************)
(* serve goroutine, lines 46-48: the bind fails (the port is taken);       *)
(* ListenAndServe returns an error other than ErrServerClosed and          *)
(* log.Fatalf writes the record and calls os.Exit(1).                      *)
(***************************************************************************)
SrvListenFail ==
    /\ Alive
    /\ srvPc = "listen"
    /\ ~inShutdown
    /\ bindAttempts' = bindAttempts + 1
    /\ logOut' = StdLogFatal(logOut, "Failed to start server:")
    /\ ProcessEnds("exit1")
    /\ srvPc' = "fatal"
    /\ UNCHANGED << mainPc, notified, quit, delivered, listener, inShutdown,
                    shutdownErr, ctxElapsed, accepted, completed, level >>
    /\ UNCHANGED sideVars

(***************************************************************************)
(* Faulty variant of SrvServerClosed: the goroutine restarts the server    *)
(* whenever ListenAndServe returns.                                        *)
(***************************************************************************)
SrvRestartOnClose ==
    /\ Alive
    /\ srvPc \in {"listen", "serve"}
    /\ inShutdown
    /\ inShutdown' = FALSE
    /\ listener' = "open"
    /\ srvPc' = "serve"
    /\ UNCHANGED << mainPc, notified, quit, delivered, shutdownErr, ctxElapsed,
                    accepted, inflight, completed, aborted, bindAttempts, level,
                    logOut, exitStatus >>
    /\ UNCHANGED sideVars

(***************************************************************************)
(* serve goroutine, lines 46-49: after Shutdown, ListenAndServe returns    *)
(* ErrServerClosed, which the condition on line 46 lets pass; the          *)
(* goroutine ends.                                                         *)
(***************************************************************************)
SrvServerClosed ==
    /\ Alive
    /\ srvPc \in {"listen", "serve"}
    /\ inShutdown
    /\ srvPc' = "done"
    /\ UNCHANGED << mainPc, notified, quit, delivered, listener, inShutdown,
                    shutdownErr, ctxElapsed, accepted, inflight, completed,
                    aborted, bindAttempts, level, logOut, exitStatus >>
    /\ UNCHANGED sideVars

(***************************************************************************)
(* The accept loop takes a new connection and starts the handler of its    *)
(* request.  Only an open listener accepts.                                *)
(***************************************************************************)
Accept(r) ==
    /\ Alive
    /\ srvPc = "serve"
    /\ listener = "open"
    /\ r \notin accepted
    /\ accepted' = accepted \cup {r}
    /\ inflight' = inflight \cup {r}
    /\ UNCHANGED << mainPc, srvPc, notified, quit, delivered, listener,
                    inShutdown, shutdownErr, ctxElapsed, completed, aborted,
                    bindAttempts, level, logOut, exitStatus >>
    /\ UNCHANGED sideVars

(***************************************************************************)
(* A running handler writes its response and returns; its connection       *)
(* becomes idle.  A handler may also never get here.                       *)
(***************************************************************************)
Complete(r) ==
    /\ Alive
    /\ r \in inflight
    /\ inflight' = inflight \ {r}
    /\ completed' = completed \cup {r}
    /\ UNCHANGED << mainPc, srvPc, notified, quit, delivered, listener,
                    inShutdown, shutdownErr, ctxElapsed, accepted, aborted,
                    bindAttempts, level, logOut, exitStatus >>
    /\ UNCHANGED sideVars

(***************************************************************************)
(* One time unit passes while Shutdown waits.  Shutdown returns as soon as *)
(* it can (the server is quiescent or the context is done), so time does   *)
(* not pass over a return that is due.                                     *)
(***************************************************************************)
Tick ==
    /\ Alive
    /\ mainPc = "shutdown"
    /\ ~Quiescent
    /\ ~CtxDone
    /\ ctxElapsed < MaxClock
    /\ ctxElapsed' = ctxElapsed + 1
    /\ UNCHANGED << mainPc, srvPc, notified, quit, delivered, listener,
                    inShutdown, shutdownErr, accepted, inflight, completed,
                    aborted, bindAttempts, level, logOut, exitStatus >>
    /\ UNCHANGED sideVars

(***************************************************************************)
(* The bind failed: the goroutine took the log.Fatalf branch of line 47.   *)
(***************************************************************************)
BindFailed == srvPc = "fatal"

(***************************************************************************)
(* Order of the lifecycle states: NotStarted < Serving < Draining <        *)
(* {Stopped, FailedShutdown}.                                              *)
(***************************************************************************)
Rank(st) ==
    CASE st = "NotStarted" -> 0
      [] st = "Serving" -> 1
      [] st = "Draining" -> 2
      [] st \in {"Stopped", "FailedShutdown"} -> 3

Terminal == ServiceState \in {"Stopped", "FailedShutdown"}

MainStep ==
    \/ MainNotify
    \/ MainWait
    \/ MainLogShutdown
    \/ MainCallShutdown
    \/ MainShutdownNil
    \/ MainShutdownTimeout
    \/ MainLogExited
    \/ MainReturn

SrvStep ==
    \/ SrvLogStarting
    \/ SrvListenOK
    \/ SrvListenFail
    \/ SrvServerClosed

Next ==
    \/ MainStep
    \/ SrvStep
    \/ \E s \in Signals : DeliverSignal(s)
    \/ \E r \in Reqs : Accept(r)
    \/ \E r \in Reqs : Complete(r)
    \/ Tick

Spec == Init /\ [][Next]_vars

(***************************************************************************)
(* The Go scheduler runs every runnable goroutine, and time passes.        *)
(* Nothing obliges a handler to finish, a client to connect or a signal to *)
(* arrive.                                                                 *)
(***************************************************************************)
FairSpec ==
    /\ Spec
    /\ WF_vars(MainStep)
    /\ WF_vars(SrvStep)
    /\ WF_vars(Tick)

(***************************************************************************)
(* Start of main, lines 21 and 24, from an arbitrary environment.          *)
(*                                                                         *)
(* The PORT values tried: every string of at most MaxPortLen characters    *)
(* over PortAlphabet, and some longer ones, among them numbers around the  *)
(* limits of an int.                                                       *)
(***************************************************************************)
PortAlphabet == {"0", "1", "9", "-", "+", "x", " "}

TextsUpTo(alphabet, n) == UNION {[1..k -> alphabet] : k \in 0..n}

LongPortTexts ==
    { << "9", "0", "9", "0" >>,
      << "6", "5", "5", "3", "5" >>,
      << "-", "8", "0", "8", "0" >>,
      << "+", "0", "0", "4", "4", "3" >>,
      << "2", "1", "4", "7", "4", "8", "3", "6", "4", "7" >>,
      << "8", "0", "a", "8", "0" >>,
      << "0", "x", "1", "F", "9", "0" >>,
      << "9", "2", "2", "3", "3", "7", "2", "0", "3", "6", "8", "5", "4", "7", "7", "5", "8", "0", "8" >>,
      << "-", "9", "2", "2", "3", "3", "7", "2", "0", "3", "6", "8", "5", "4", "7", "7", "5", "8", "0", "9" >>,
      << "0", "0", "0", "0", "0", "0", "0", "0", "0", "0", "0", "0", "0", "0", "0", "0", "0", "0", "0", "0", "0", "8", "0" >>,
      << "9", "9", "9", "9", "9", "9", "9", "9", "9", "9", "9", "9", "9", "9", "9", "9", "9", "9", "9", "9" >> }

PortTexts == TextsUpTo(PortAlphabet, MaxPortLen) \cup LongPortTexts

OtherHost ==
    << "1", "2", "7", ".", "0", ".", "0", ".", "1" >>

NameProduction ==
    << "p", "r", "o", "d", "u", "c", "t", "i", "o", "n" >>

NameStaging ==
    << "s", "t", "a", "g", "i", "n", "g" >>

OtherEnvironment ==
    << "q", "a" >>

UpperDebug ==
    << "D", "E", "B", "U", "G" >>

OtherLogLevel ==
    << "v", "e", "r", "b", "o", "s", "e" >>

LocalHost ==
    << "l", "o", "c", "a", "l", "h", "o", "s", "t" >>

OtherURL ==
    << "d", "b" >>

\* What each string variable is tried with, besides being unset or empty.
OtherValues(key) ==
    CASE key = "HOST" -> {OtherHost}
      [] key = "ENV" -> {NameProduction, OtherEnvironment}
      [] key = "LOG_LEVEL" -> {UpperDebug, OtherLogLevel}
      [] OTHER -> {OtherURL}

ConfigEnvs ==
    {[NoEnv EXCEPT !["PORT"] = SetTo(t)] : t \in PortTexts}
    \cup
    {e \in [EnvKeys -> {Unset} \cup {SetTo(v) : v \in
                {<< >>, << "9", "0", "9", "0" >>, OtherHost, NameProduction,
                 OtherEnvironment, UpperDebug, OtherLogLevel, OtherURL}}] :
        /\ e["PORT"] \in {Unset, SetTo(<< "9", "0", "9", "0" >>)}
        /\ \A k \in EnvKeys \ {"PORT"} :
              e[k] \in {Unset, SetTo(<< >>)} \cup {SetTo(v) : v \in OtherValues(k)}}

\* The process as main begins, in one of the given environments.
ProcessStart(envs) ==
    /\ mainPc = "load"
    /\ srvPc = "unborn"
    /\ notified = FALSE
    /\ quit = << >>
    /\ delivered = << >>
    /\ listener = "unbound"
    /\ inShutdown = FALSE
    /\ shutdownErr = "pending"
    /\ ctxElapsed = 0
    /\ accepted = {}
    /\ inflight = {}
    /\ completed = {}
    /\ aborted = {}
    /\ bindAttempts = 0
    /\ env \in envs
    /\ cfg = << >>
    /\ levelName = << >>
    /\ level = DEBUG
    /\ loggerReady = FALSE
    /\ logDest = "stderr"
    /\ thr = [t \in Threads |-> NoCall]
    /\ logOut = << >>
    /\ exitStatus = "running"
    /\ ApiIdle(<< >>)

ConfigInit == ProcessStart(ConfigEnvs)

(***************************************************************************)
(* main, line 21: cfg := config.Load()                                     *)
(***************************************************************************)
MainLoad ==
    /\ Alive
    /\ mainPc = "load"
    /\ cfg' = << Load(env) >>
    /\ mainPc' = "newLogger"
    /\ UNCHANGED << srvPc, notified, quit, delivered, listener, inShutdown,
                    shutdownErr, ctxElapsed, accepted, inflight, completed,
                    aborted, bindAttempts, level, logOut, exitStatus >>
    /\ UNCHANGED << env, levelName, loggerReady, logDest, thr, apiVars,
                    boundPort, boundHost >>

(***************************************************************************)
(* main, line 24: logger := logger.New(cfg.LogLevel)                       *)
(***************************************************************************)
MainNewLogger ==
    /\ Alive
    /\ mainPc = "newLogger"
    /\ levelName' = cfg[1].LogLevel
    /\ level' = New(cfg[1].LogLevel)
    /\ loggerReady' = TRUE
    /\ mainPc' = "setup"
    /\ UNCHANGED << srvPc, notified, quit, delivered, listener, inShutdown,
                    shutdownErr, ctxElapsed, accepted, inflight, completed,
                    aborted, bindAttempts, logOut, exitStatus >>
    /\ UNCHANGED << env, cfg, logDest, thr, apiVars, boundPort, boundHost >>

ConfigNext ==
    \/ MainLoad
    \/ MainNewLogger

ConfigSpec == ConfigInit /\ [][ConfigNext]_vars

(***************************************************************************)
(* The logger on its own: New is called with an arbitrary level name, and  *)
(* then the threads call Debug, Info and Error.  A Debug or Info call is   *)
(* one write of the standard logger, which is atomic; an Error call is     *)
(* three statements, which other threads can interleave with.              *)
(*                                                                         *)
(* The names tried: the three level words in every letter case, the empty  *)
(* name, and some other names.                                             *)
(***************************************************************************)
ToUpperChar(c) ==
    IF \E i \in 1..Len(LowerLetters) : LowerLetters[i] = c
      THEN UpperLetters[CHOOSE i \in 1..Len(LowerLetters) : LowerLetters[i] = c]
      ELSE c

CaseVariants(word) ==
    {[i \in 1..Len(word) |-> IF i \in up THEN ToUpperChar(word[i]) ELSE word[i]] :
        up \in SUBSET (1..Len(word))}

OtherNames ==
    { << >>,
      OtherLogLevel,
      << "w", "a", "r", "n" >>,
      << "i", "n", "f" >>,
      << "e", "r", "r", "o", "r", "s" >>,
      << " ", "d", "e", "b", "u", "g" >>,
      << "0" >> }

LevelNames ==
    CaseVariants(NameDebug) \cup CaseVariants(NameInfo)
        \cup CaseVariants(NameError) \cup OtherNames

LoggerStart(names) ==
    /\ mainPc = "none"
    /\ srvPc = "unborn"
    /\ notified = FALSE
    /\ quit = << >>
    /\ delivered = << >>
    /\ listener = "unbound"
    /\ inShutdown = FALSE
    /\ shutdownErr = "pending"
    /\ ctxElapsed = 0
    /\ accepted = {}
    /\ inflight = {}
    /\ completed = {}
    /\ aborted = {}
    /\ bindAttempts = 0
    /\ env = NoEnv
    /\ cfg = << >>
    /\ levelName \in names
    /\ level = DEBUG
    /\ loggerReady = FALSE
    /\ logDest = "stderr"
    /\ thr = [t \in Threads |-> NoCall]
    /\ logOut = << >>
    /\ exitStatus = "running"
    /\ ApiIdle(<< >>)

\* Construction alone, over every name.
NewInit == LoggerStart(LevelNames)

\* Construction and emit calls, over the names main can pass by default or
\* on request, a name that is no level, and the empty name.
LoggerInit ==
    LoggerStart({NameDebug, NameInfo, NameError, OtherLogLevel, << >>})

LoggerFrame ==
    UNCHANGED << mainPc, srvPc, notified, quit, delivered, listener, inShutdown,
                 shutdownErr, ctxElapsed, accepted, inflight, completed,
                 aborted, bindAttempts, exitStatus, env, cfg, levelName,
                 apiVars, boundPort, boundHost >>

\* The calls that may still write keep the log within MaxLog records.
RoomToLog ==
    Len(logOut) + Cardinality({u \in Threads : thr[u].pc \in {"redirect", "write"}})
        < MaxLog

\* Thread t makes a call of the given kind: every thread inside a call
\* records the overlap.
Overlapped(t, kind) ==
    [u \in Threads |->
        IF u # t /\ thr[u].pc # "idle"
          THEN [thr[u] EXCEPT !.overlap = @ \cup {kind}]
          ELSE thr[u]]

OthersInCall(t) == {thr[u].op : u \in {v \in Threads \ {t} : thr[v].pc # "idle"}}

(***************************************************************************)
(* New(level), lines 24-40.                                                *)
(***************************************************************************)
CallNew ==
    /\ ~loggerReady
    /\ level' = New(levelName)
    /\ loggerReady' = TRUE
    /\ UNCHANGED << logOut, logDest, thr >>
    /\ LoggerFrame

(***************************************************************************)
(* Logger.Debug, lines 43-47.                                              *)
(***************************************************************************)
CallDebug(t) ==
    /\ loggerReady
    /\ thr[t].pc = "idle"
    /\ RoomToLog
    /\ logOut' = LoggerDebug(logOut, "m")
    /\ thr' = [Overlapped(t, "debug") EXCEPT
                  ![t] = [op |-> "debug", pc |-> "idle",
                          overlap |-> OthersInCall(t), before |-> logDest]]
    /\ UNCHANGED << level, loggerReady, logDest >>
    /\ LoggerFrame

(***************************************************************************)
(* Logger.Info, lines 50-54.                                               *)
(***************************************************************************)
CallInfo(t) ==
    /\ loggerReady
    /\ thr[t].pc = "idle"
    /\ RoomToLog
    /\ logOut' = LoggerInfo(logOut, "m")
    /\ thr' = [Overlapped(t, "info") EXCEPT
                  ![t] = [op |-> "info", pc |-> "idle",
                          overlap |-> OthersInCall(t), before |-> logDest]]
    /\ UNCHANGED << level, loggerReady, logDest >>
    /\ LoggerFrame

\* Faulty variant of ErrorEnter: an error record is gated as an info record
\* is.
ErrorEnterAtInfo(t) ==
    /\ loggerReady
    /\ thr[t].pc = "idle"
    /\ RoomToLog
    /\ thr' = [Overlapped(t, "error") EXCEPT
                  ![t] = [op |-> "error",
                          pc |-> IF level <= INFO THEN "redirect" ELSE "idle",
                          overlap |-> OthersInCall(t), before |-> logDest]]
    /\ UNCHANGED << level, loggerReady, logDest, logOut >>
    /\ LoggerFrame

(***************************************************************************)
(* Logger.Error, line 58: the level test on entry.                         *)
(***************************************************************************)
ErrorEnter(t) ==
    /\ loggerReady
    /\ thr[t].pc = "idle"
    /\ RoomToLog
    /\ thr' = [Overlapped(t, "error") EXCEPT
                  ![t] = [op |-> "error",
                          pc |-> IF level <= ERROR THEN "redirect" ELSE "idle",
                          overlap |-> OthersInCall(t), before |-> logDest]]
    /\ UNCHANGED << level, loggerReady, logDest, logOut >>
    /\ LoggerFrame

\* Faulty variant of ErrorRedirect: the destination is left as it is.
ErrorRedirectSkipped(t) ==
    /\ thr[t].pc = "redirect"
    /\ logDest' = logDest
    /\ thr' = [thr EXCEPT ![t].pc = "write"]
    /\ UNCHANGED << level, loggerReady, logOut >>
    /\ LoggerFrame

(***************************************************************************)
(* Logger.Error, line 59: log.SetOutput(os.Stderr)                         *)
(***************************************************************************)
ErrorRedirect(t) ==
    /\ thr[t].pc = "redirect"
    /\ logDest' = "stderr"
    /\ thr' = [thr EXCEPT ![t].pc = "write"]
    /\ UNCHANGED << level, loggerReady, logOut >>
    /\ LoggerFrame

(***************************************************************************)
(* Logger.Error, line 60: log.Printf("[ERROR] %s", msg)                    *)
(***************************************************************************)
ErrorWrite(t) ==
    /\ thr[t].pc = "write"
    /\ logOut' = Append(logOut, LogRecord("[ERROR]", "m"))
    /\ thr' = [thr EXCEPT ![t].pc = "restore"]
    /\ UNCHANGED << level, loggerReady, logDest >>
    /\ LoggerFrame

(***************************************************************************)
(* Logger.Error, line 61: log.SetOutput(os.Stdout), and the return.        *)
(***************************************************************************)
ErrorRestore(t) ==
    /\ thr[t].pc = "restore"
    /\ logDest' = "stdout"
    /\ thr' = [thr EXCEPT ![t].pc = "idle"]
    /\ UNCHANGED << level, loggerReady, logOut >>
    /\ LoggerFrame

LoggerNext ==
    \/ CallNew
    \/ \E t \in Threads :
          \/ CallDebug(t)
          \/ CallInfo(t)
          \/ ErrorEnter(t)
          \/ ErrorRedirect(t)
          \/ ErrorWrite(t)
          \/ ErrorRestore(t)

LoggerSpec == LoggerInit /\ [][LoggerNext]_vars

NewNext == CallNew

NewSpec == NewInit /\ [][NewNext]_vars

(***************************************************************************)
(* The service answering requests.  It starts in the Serving state, with   *)
(* the signal handler installed and the dependencies in any real status;   *)
(* requests are accepted and routed, handlers run, the clock advances, and *)
(* a termination signal takes the service into Draining, where the         *)
(* handlers still running are left to finish.                              *)
(***************************************************************************)
ApiInit ==
    /\ mainPc = "wait"
    /\ srvPc = "serve"
    /\ notified = TRUE
    /\ quit = << >>
    /\ delivered = << >>
    /\ listener = "open"
    /\ inShutdown = FALSE
    /\ shutdownErr = "pending"
    /\ ctxElapsed = 0
    /\ accepted = {}
    /\ inflight = {}
    /\ completed = {}
    /\ aborted = {}
    /\ bindAttempts = 1
    /\ env = NoEnv
    /\ cfg = << Load(env) >>
    /\ levelName = cfg[1].LogLevel
    /\ level = New(levelName)
    /\ loggerReady = TRUE
    /\ logDest = "stderr"
    /\ thr = [t \in Threads |-> NoCall]
    /\ logOut = LoggerInfo(<< >>, "Dahlia server starting on port")
    /\ exitStatus = "running"
    /\ startTime = 0
    /\ now = startTime
    /\ routeTable = SetupRoutes(<< >>)
    /\ boundPort = << cfg[1].Port >>
    /\ boundHost = << Addr(cfg[1]).host >>
    /\ deps \in [Dependencies -> {"up", "down"}]
    /\ route = [r \in ApiReqs |-> "none"]
    /\ resp = [r \in ApiReqs |-> NoResponse]
    /\ servedAt = [r \in ApiReqs |-> startTime]

(***************************************************************************)
(* The accept loop takes a connection, and the router finds the handler    *)
(* registered for the request's route.                                     *)
(***************************************************************************)
ApiAccept(r, rt) ==
    /\ Alive
    /\ srvPc = "serve"
    /\ listener = "open"
    /\ r \notin accepted
    /\ accepted' = accepted \cup {r}
    /\ inflight' = inflight \cup {r}
    /\ route' = [route EXCEPT ![r] = rt]
    /\ UNCHANGED << mainPc, srvPc, notified, quit, delivered, listener,
                    inShutdown, shutdownErr, ctxElapsed, completed, aborted,
                    bindAttempts, level, logOut, exitStatus >>
    /\ UNCHANGED << env, cfg, levelName, loggerReady, logDest, thr >>
    /\ UNCHANGED << now, deps, resp, servedAt, startTime, routeTable, boundPort,
                    boundHost >>

(***************************************************************************)
(* Faulty variant of ApiServe: the handler reports through logger.Error,   *)
(* which leaves the standard logger writing to stdout.                     *)
(***************************************************************************)
ApiServeLogsError(r) ==
    /\ Alive
    /\ r \in inflight
    /\ resp' = [resp EXCEPT ![r] = Handler(route[r], now)]
    /\ servedAt' = [servedAt EXCEPT ![r] = now]
    /\ inflight' = inflight \ {r}
    /\ completed' = completed \cup {r}
    /\ logDest' = "stdout"
    /\ UNCHANGED << mainPc, srvPc, notified, quit, delivered, listener,
                    inShutdown, shutdownErr, ctxElapsed, accepted, aborted,
                    bindAttempts, level, logOut, exitStatus >>
    /\ UNCHANGED << env, cfg, levelName, loggerReady, thr >>
    /\ UNCHANGED << now, deps, route, startTime, routeTable, boundPort,
                    boundHost >>

(***************************************************************************)
(* The handler of a routed request runs and writes its response.           *)
(***************************************************************************)
ApiServe(r) ==
    /\ Alive
    /\ r \in inflight
    /\ resp' = [resp EXCEPT ![r] = Handler(route[r], now)]
    /\ servedAt' = [servedAt EXCEPT ![r] = now]
    /\ inflight' = inflight \ {r}
    /\ completed' = completed \cup {r}
    /\ UNCHANGED << mainPc, srvPc, notified, quit, delivered, listener,
                    inShutdown, shutdownErr, ctxElapsed, accepted, aborted,
                    bindAttempts, level, logOut, exitStatus >>
    /\ UNCHANGED << env, cfg, levelName, loggerReady, logDest, thr >>
    /\ UNCHANGED << now, deps, route, startTime, routeTable, boundPort,
                    boundHost >>

(***************************************************************************)
(* The wall clock advances.                                                *)
(***************************************************************************)
ClockTick ==
    /\ Alive
    /\ now < MaxNow
    /\ now' = now + 1
    /\ UNCHANGED << mainPc, srvPc, notified, quit, delivered, listener,
                    inShutdown, shutdownErr, ctxElapsed, accepted, inflight,
                    completed, aborted, bindAttempts, level, logOut,
                    exitStatus >>
    /\ UNCHANGED << env, cfg, levelName, loggerReady, logDest, thr >>
    /\ UNCHANGED << deps, route, resp, servedAt, startTime, routeTable,
                    boundPort, boundHost >>

(***************************************************************************)
(* main, lines 54-62, in one step: a signal arrives, main receives it,     *)
(* logs, and enters srv.Shutdown, which closes the listener.               *)
(***************************************************************************)
ApiShutdownBegins(s) ==
    /\ Alive
    /\ mainPc = "wait"
    /\ notified
    /\ quit = << >>
    /\ Len(delivered) < MaxSignals
    /\ delivered' = Append(delivered, << s, ServiceState >>)
    /\ logOut' = LoggerInfo(logOut, "Shutting down server...")
    /\ ctxElapsed' = 0
    /\ inShutdown' = TRUE
    /\ listener' = IF listener = "open" THEN "closed" ELSE listener
    /\ mainPc' = "shutdown"
    /\ UNCHANGED << srvPc, notified, quit, shutdownErr, accepted, inflight,
                    completed, aborted, bindAttempts, level, exitStatus >>
    /\ UNCHANGED sideVars

ApiNext ==
    \/ \E r \in ApiReqs, rt \in Routes : ApiAccept(r, rt)
    \/ \E r \in ApiReqs : ApiServe(r)
    \/ ClockTick
    \/ \E s \in Signals : ApiShutdownBegins(s)

ApiSpec == ApiInit /\ [][ApiNext]_vars

(***************************************************************************)
(* The whole program: main from its first statement, in an environment     *)
(* whose PORT is unset, a usable port, 0, negative or above 65535, or      *)
(* whose HOST is set, and then the lifecycle.                              *)
(***************************************************************************)
ProgramEnvs ==
    {NoEnv} \cup
    {[NoEnv EXCEPT !["PORT"] = SetTo(t)] :
        t \in { << "9", "0", "9", "0" >>, << "0" >>, << "-", "1" >>,
               << "7", "0", "0", "0", "0" >> }}
    \cup
    {[NoEnv EXCEPT !["HOST"] = SetTo(h)] : h \in {OtherHost, LocalHost}}

ProgramInit == ProcessStart(ProgramEnvs)

(***************************************************************************)
(* main, lines 27-49: the router is created, SetupRoutes registers the     *)
(* routes, the server is given the address ":<port>", and the serve        *)
(* goroutine is started.                                                   *)
(***************************************************************************)
MainSetup ==
    /\ Alive
    /\ mainPc = "setup"
    /\ routeTable' = SetupRoutes(routeTable)
    /\ srvPc' = "start"
    /\ mainPc' = "notify"
    /\ UNCHANGED << notified, quit, delivered, listener, inShutdown,
                    shutdownErr, ctxElapsed, accepted, inflight, completed,
                    aborted, bindAttempts, level, logOut, exitStatus >>
    /\ UNCHANGED << env, cfg, levelName, loggerReady, logDest, thr, boundPort,
                    boundHost >>
    /\ UNCHANGED << now, deps, route, resp, servedAt, startTime >>

ProgramNext ==
    \/ MainLoad
    \/ MainNewLogger
    \/ MainSetup
    \/ Next

ProgramSpec == ProgramInit /\ [][ProgramNext]_vars

(***************************************************************************)
(* C1.  Shutdown is bounded.  While the service is Draining the shutdown   *)
(* clock never passes the 5 unit deadline; once the deadline has passed    *)
(* the shutdown path is not blocked (its timeout step is enabled) whatever *)
(* the number of open connections; and every run that enters Draining      *)
(* reaches Stopped or FailedShutdown, even when a handler never returns.   *)
(***************************************************************************)
C1_ShutdownBounded ==
    /\ [](ServiceState = "Draining" => ctxElapsed <= Deadline)
    /\ [](ServiceState = "Draining" /\ ctxElapsed >= Deadline
              => ENABLED MainShutdownTimeout)
    /\ (ServiceState = "Draining")
           ~> (ServiceState \in {"Stopped", "FailedShutdown"})

\* Every connection of the model was still open when the deadline struck.
C1_Witness ==
    /\ ServiceState = "FailedShutdown"
    /\ ctxElapsed = Deadline
    /\ aborted = Reqs

(***************************************************************************)
(* C2.  Clean drain.  When the server is quiescent before the deadline     *)
(* (every request in flight at the start of Draining has completed, or     *)
(* there was none), the service reaches Stopped and the process exits with *)
(* code 0; Stopped is only ever reached before the deadline.               *)
(***************************************************************************)
C2_CleanDrainExitsZero ==
    /\ (ServiceState = "Draining" /\ inflight = {} /\ ctxElapsed < Deadline)
           ~> (ServiceState = "Stopped" /\ exitStatus = "exit0")
    /\ [](ServiceState = "Stopped" => ctxElapsed < Deadline)

\* A request that was in flight during the drain completed and the exit was clean.
C2_Witness ==
    /\ exitStatus = "exit0"
    /\ ctxElapsed > 0
    /\ completed # {}

(***************************************************************************)
(* C3.  Timeout.  Once the deadline has elapsed in Draining (which only    *)
(* happens with a request in flight), the step that leaves Draining leads  *)
(* to FailedShutdown, cuts off every remaining request and exits with      *)
(* status 1; FailedShutdown never goes with another exit status, and a     *)
(* step taken after the deadline never leads to Stopped.                   *)
(***************************************************************************)
C3_TimeoutFailsShutdown ==
    /\ [][ (ServiceState = "Draining" /\ ctxElapsed < Deadline
              /\ ctxElapsed' >= Deadline) => inflight # {} ]_vars
    /\ [][ (ServiceState = "Draining" /\ ctxElapsed >= Deadline
              /\ ServiceState' # "Draining")
           => /\ ServiceState' = "FailedShutdown"
              /\ exitStatus' = "exit1"
              /\ inflight' = {}
              /\ aborted' = aborted \cup inflight ]_vars
    /\ [](ServiceState = "FailedShutdown" => exitStatus = "exit1")

\* One request finished during the drain, another was cut off at the deadline.
C3_Witness ==
    /\ ServiceState = "FailedShutdown"
    /\ exitStatus = "exit1"
    /\ aborted # {}
    /\ completed # {}

(***************************************************************************)
(* C4.  Signals are idempotent during the drain.  A signal delivered while *)
(* the service is Draining leaves the service Draining, does not move the  *)
(* shutdown clock, the main path, the server or the requests; the main     *)
(* path never receives from quit a second time and never calls Shutdown a  *)
(* second time.                                                            *)
(***************************************************************************)
C4_SignalIdempotent ==
    /\ [][ (ServiceState = "Draining" /\ Len(delivered') > Len(delivered))
           => /\ ServiceState' = "Draining"
              /\ ctxElapsed' = ctxElapsed
              /\ exitStatus' = "running"
              /\ UNCHANGED << mainPc, srvPc, inShutdown, shutdownErr, listener,
                              accepted, inflight, completed, aborted >> ]_vars
    /\ [][ mainPc \notin {"notify", "wait"} => Len(quit') >= Len(quit) ]_vars
    /\ [][ mainPc' = "callShutdown" => mainPc \in {"logShutdown", "callShutdown"} ]_vars

\* A second signal arrived during the drain, after time had passed, and the
\* drain is still running on its original clock.
C4_Witness ==
    /\ ServiceState = "Draining"
    /\ ctxElapsed > 0
    /\ Len(delivered) >= 2
    /\ delivered[Len(delivered)][2] = "Draining"

(***************************************************************************)
(* C5.  The lifecycle state never moves backwards in the order NotStarted  *)
(* < Serving < Draining < {Stopped, FailedShutdown}; in particular Serving *)
(* is never re-entered once it has been left.                              *)
(***************************************************************************)
C5_StateMonotonic ==
    /\ [][ Rank(ServiceState') >= Rank(ServiceState) ]_vars
    /\ [][ (ServiceState # "Serving" /\ ServiceState' = "Serving")
           => ServiceState = "NotStarted" ]_vars

\* The service has been Serving (its listener was open) and has left it.
C5_Witness ==
    /\ ServiceState = "Draining"
    /\ listener = "closed"
    /\ srvPc = "done"

(***************************************************************************)
(* C6.  Only a signal starts the drain, and only once.  The wait on quit   *)
(* is left only when quit holds a signal, which is the first signal the    *)
(* process received, and it is never entered again; Draining is entered    *)
(* only from the main path's Shutdown call, after a signal, and once left  *)
(* is not entered again.                                                   *)
(***************************************************************************)
C6_DrainOnlyOnSignal ==
    /\ [][ (mainPc = "wait" /\ mainPc' # "wait")
           => /\ quit # << >>
              /\ Head(quit) = delivered[1][1]
              /\ Head(quit) \in Signals
              /\ mainPc' = "logShutdown" ]_vars
    /\ [][ mainPc' = "wait" => mainPc \in {"notify", "wait"} ]_vars
    /\ [][ (ServiceState # "Draining" /\ ServiceState' = "Draining")
           => /\ ServiceState \in {"NotStarted", "Serving"}
              /\ mainPc = "callShutdown"
              /\ delivered # << >> ]_vars

\* Serving -> Draining has happened on the one signal received.
C6_Witness ==
    /\ ServiceState = "Draining"
    /\ listener = "closed"
    /\ Len(delivered) = 1
    /\ quit = << >>

(***************************************************************************)
(* C7.  Draining accepts nothing and aborts nothing.  The step into        *)
(* Draining closes the listener and leaves the requests in flight alone;   *)
(* while Draining no request is accepted; before the deadline no request   *)
(* is aborted, a request leaves the in-flight set only by completing, and  *)
(* every request in flight is free to complete.                            *)
(***************************************************************************)
C7_DrainLetsInflightFinish ==
    /\ [][ (ServiceState # "Draining" /\ ServiceState' = "Draining")
           => /\ listener' # "open"
              /\ UNCHANGED << accepted, inflight, completed, aborted >> ]_vars
    /\ [][ ServiceState = "Draining" => accepted' = accepted ]_vars
    /\ [][ (ServiceState = "Draining" /\ ctxElapsed < Deadline)
           => /\ aborted' = aborted
              /\ inflight' \subseteq inflight
              /\ (inflight \ inflight') \subseteq completed' ]_vars
    /\ [](ServiceState = "Draining" /\ ctxElapsed < Deadline
              => \A r \in inflight : ENABLED Complete(r))

\* Time has passed in the drain, a request is still running, and a client that
\* has not been accepted is kept out.
C7_Witness ==
    /\ ServiceState = "Draining"
    /\ ctxElapsed > 0
    /\ inflight # {}
    /\ accepted # Reqs

(***************************************************************************)
(* C8.  A bind failure is fatal and not retried.  The address is bound at  *)
(* most once per run; after a failed bind the process has exited with      *)
(* status 1, the listener was never open (the service never was Serving)   *)
(* and no request was accepted.                                            *)
(***************************************************************************)
C8_BindFailureFatal ==
    /\ bindAttempts <= 1
    /\ (srvPc = "listen" => bindAttempts = 0)
    /\ (BindFailed
          => /\ exitStatus = "exit1"
             /\ listener = "unbound"
             /\ ServiceState = "NotStarted"
             /\ accepted = {})

\* The bind failed after the main path had already received a signal.
C8_Witness ==
    /\ BindFailed
    /\ bindAttempts = 1
    /\ mainPc \in {"logShutdown", "callShutdown"}

(***************************************************************************)
(* C9.  Exit codes match the terminal state.  The process has exited with  *)
(* code 0 exactly when it reached Stopped and main returned; it has exited *)
(* with code 1 exactly when the bind failed or the run ended in            *)
(* FailedShutdown; a run that reaches Stopped does exit with 0; and once   *)
(* the process has ended nothing changes any more.  (A process that dies   *)
(* from a signal has no exit code.)                                        *)
(***************************************************************************)
C9_ExitCodes ==
    /\ [](exitStatus = "exit0" <=> (ServiceState = "Stopped" /\ mainPc = "done"))
    /\ [](exitStatus = "exit1" <=> (BindFailed \/ ServiceState = "FailedShutdown"))
    /\ [](ServiceState = "Stopped" => exitStatus \in {"running", "exit0"})
    /\ (ServiceState = "Stopped") ~> (exitStatus = "exit0")
    /\ [][ exitStatus # "running" => UNCHANGED vars ]_vars

\* A run that served every client of the model and exited cleanly.
C9_Witness ==
    /\ exitStatus = "exit0"
    /\ listener = "closed"
    /\ completed = Reqs

(***************************************************************************)
(* C10.  Stopped and FailedShutdown are terminal.  From either, the        *)
(* lifecycle state does not change, no request is accepted, completed or   *)
(* aborted and the listener stays as it is; all that is left to the main   *)
(* path is the final log call and the return, and the process does end.    *)
(***************************************************************************)
C10_TerminalStates ==
    /\ [][ Terminal
           => /\ ServiceState' = ServiceState
              /\ UNCHANGED << accepted, inflight, completed, aborted, listener,
                              inShutdown, ctxElapsed >> ]_vars
    /\ [](Terminal /\ Alive => mainPc \in {"logExited", "return"})
    /\ [](Terminal /\ Alive => inflight = {} /\ listener # "open")
    /\ Terminal ~> ~Alive

\* The process has ended in Stopped, and a signal that came after the first
\* one is still sitting in quit.
C10_Witness ==
    /\ ServiceState = "Stopped"
    /\ ~Alive
    /\ quit # << >>

(***************************************************************************)
(* Decimal texts, as the claims about PORT read them.                      *)
(***************************************************************************)
\* An optional sign followed by one or more decimal digits.
IsIntegerText(str) ==
    LET body == IF str # << >> /\ str[1] \in {"+", "-"} THEN Tail(str) ELSE str
    IN  body # << >> /\ \A i \in 1..Len(body) : IsDigit(body[i])

RECURSIVE DropLeadingZeros(_)
DropLeadingZeros(d) ==
    IF Len(d) > 1 /\ d[1] = "0" THEN DropLeadingZeros(Tail(d)) ELSE d

\* The shortest decimal text of the integer that an integer text denotes.
Canonical(str) ==
    LET body == IF str[1] \in {"+", "-"} THEN Tail(str) ELSE str
        mag  == DropLeadingZeros(body)
    IN  IF str[1] = "-" /\ mag # << "0" >> THEN << "-" >> \o mag ELSE mag

DigitOf(n) == DigitChars[n + 1]

RECURSIVE NatText(_)
NatText(n) == IF n < 10 THEN << DigitOf(n) >> ELSE NatText(n \div 10) \o << DigitOf(n % 10) >>

\* The decimal text of an integer.
IntText(n) == IF n < 0 THEN << "-" >> \o NatText(0 - n) ELSE NatText(n)

\* The integer lies within the range of an int (64 bits).
FitsInt(str) ==
    LET mag == DropLeadingZeros(IF str[1] \in {"+", "-"} THEN Tail(str) ELSE str)
        lim == IF str[1] = "-" THEN IntMinDigits ELSE IntMaxDigits
    IN  \/ Len(mag) < Len(lim)
        \/ /\ Len(mag) = Len(lim)
           /\ \A i \in 1..Len(mag) :
                 (\A j \in 1..(i - 1) : DigitVal(mag[j]) = lim[j])
                     => DigitVal(mag[i]) <= lim[i]

(***************************************************************************)
(* C11 as stated.  For every integer-valued PORT, Load returns that        *)
(* integer as the port; for every non-numeric, empty or absent PORT it     *)
(* returns 8080.  An integer outside the range of an int refutes it.       *)
(***************************************************************************)
C11_PortEveryInteger ==
    cfg # << >> =>
        LET p == Getenv(env, "PORT")
        IN  IF IsIntegerText(p)
              THEN IntText(cfg[1].Port) = Canonical(p)
              ELSE cfg[1].Port = 8080

(***************************************************************************)
(* C11, amended.  For every PORT that is an integer within the range of    *)
(* an int, Load returns that integer as the port; for every other PORT     *)
(* (non-numeric, empty, absent, or an integer out of that range) it        *)
(* returns 8080.                                                           *)
(***************************************************************************)
C11_PortIntegerInRange ==
    cfg # << >> =>
        LET p == Getenv(env, "PORT")
        IN  IF IsIntegerText(p) /\ FitsInt(p)
              THEN IntText(cfg[1].Port) = Canonical(p)
              ELSE cfg[1].Port = 8080

C11_Witness ==
    /\ cfg # << >>
    /\ Getenv(env, "PORT") = << "-", "1", "9" >>
    /\ cfg[1].Port = 0 - 19

(***************************************************************************)
(* C12.  Load substitutes 8080 whenever PORT is not parseable as a         *)
(* positive integer, so the resolved port is always a positive integer.    *)
(***************************************************************************)
C12_PortAlwaysPositive ==
    cfg # << >> =>
        /\ cfg[1].Port > 0
        /\ LET p == Getenv(env, "PORT")
           IN  (IsIntegerText(p) /\ Canonical(p)[1] \in {"-", "0"}) => cfg[1].Port = 8080

(***************************************************************************)
(* C13.  Load is total: from every environment it returns, without error   *)
(* or abort, a Configuration with all seven fields populated, and each     *)
(* string field is the variable's value when that is non-empty and the     *)
(* fixed default otherwise.                                                *)
(***************************************************************************)
StringFields ==
    { << "HOST", "Host", DefaultHost >>,
      << "ENV", "Environment", DefaultEnvironment >>,
      << "LOG_LEVEL", "LogLevel", DefaultLogLevel >>,
      << "DATABASE_URL", "DatabaseURL", DefaultDatabaseURL >>,
      << "REDIS_URL", "RedisURL", DefaultRedisURL >>,
      << "JWT_SECRET", "JWTSecret", DefaultJWTSecret >> }

C14_EnumeratedFields ==
    cfg # << >> =>
        /\ cfg[1].Environment \in {DefaultEnvironment, NameStaging, NameProduction}
        /\ cfg[1].LogLevel \in {NameDebug, NameInfo, NameError}

(***************************************************************************)
(* C15.  Logger construction is total and case-insensitive: New yields     *)
(* debug, info or error when the name is that word in any letter case,     *)
(* info for every other name, the empty one included, and never fails.     *)
(***************************************************************************)
SameWord(name, word) ==
    /\ Len(name) = Len(word)
    /\ \A i \in 1..Len(word) : name[i] \in {word[i], ToUpperChar(word[i])}

C15_NewCaseInsensitive ==
    /\ ~loggerReady => ENABLED CallNew
    /\ loggerReady =>
          /\ exitStatus = "running"
          /\ level = IF SameWord(levelName, NameDebug) THEN DEBUG
                     ELSE IF SameWord(levelName, NameError) THEN ERROR
                     ELSE INFO

C15_Witness ==
    /\ loggerReady
    /\ levelName = << "e", "R", "R", "o", "r" >>
    /\ level = ERROR

(***************************************************************************)
(* C16.  Level gating, with debug < info < error: an emit call at level c  *)
(* on a logger configured at level L writes a record if and only if        *)
(* L <= c, and otherwise changes neither the log nor the destination.      *)
(***************************************************************************)
Wrote(tag) ==
    /\ Len(logOut') = Len(logOut) + 1
    /\ SubSeq(logOut', 1, Len(logOut)) = logOut
    /\ logOut'[Len(logOut')].tag = tag

NoOp == logOut' = logOut /\ logDest' = logDest

C16_LevelGating ==
    [][\A t \in Threads :
          /\ CallDebug(t) => IF level <= DEBUG THEN Wrote("[DEBUG]") ELSE NoOp
          /\ CallInfo(t) => IF level <= INFO THEN Wrote("[INFO]") ELSE NoOp
          /\ ErrorEnter(t) =>
                IF level <= ERROR THEN thr'[t].pc = "redirect"
                                  ELSE NoOp /\ thr'[t].pc = "idle"
          /\ ErrorWrite(t) => Wrote("[ERROR]")]_vars

C16_Witness ==
    /\ level = INFO
    /\ thr[1].op = "debug"
    /\ thr[2].op = "info"
    /\ Len(logOut) = 1
    /\ logOut[1].tag = "[INFO]"

(***************************************************************************)
(* C17.  Error restores the destination: when an Error call runs with no   *)
(* other logging call overlapping it, the destination after the call is    *)
(* the one that was in effect immediately before it.                       *)
(***************************************************************************)
C17_ErrorRestoresDestination ==
    [][\A t \in Threads :
          (ErrorRestore(t) /\ thr[t].overlap = {}) => logDest' = thr[t].before]_vars

(***************************************************************************)
(* C18.  When no other Error call overlaps an Error call, its record is    *)
(* written while the destination is the error stream.  (With two Error     *)
(* calls running concurrently, a state is reachable in which an error      *)
(* record has been written to the other stream: C18_Witness.)              *)
(***************************************************************************)
C18_ErrorRouting ==
    [][\A t \in Threads :
          (ErrorWrite(t) /\ "error" \notin thr[t].overlap)
              => /\ logDest = "stderr"
                 /\ logOut'[Len(logOut')].dest = "stderr"]_vars

C18_Witness ==
    \E i \in 1..Len(logOut) :
        /\ logOut[i].tag = "[ERROR]"
        /\ logOut[i].dest = "stdout"
        /\ \E t \in Threads : thr[t].op = "error" /\ "error" \in thr[t].overlap

(***************************************************************************)
(* C19.  In every reachable state of the service, a GET /health request    *)
(* is answered with HTTP 200 and status "healthy", with a timestamp taken  *)
(* at request time.                                                        *)
(***************************************************************************)
C19_HealthAlways200 ==
    \A r \in completed :
        route[r] = "/health" =>
            /\ resp[r].code = 200
            /\ resp[r].body.status = "healthy"
            /\ resp[r].body.timestamp = servedAt[r]

C19_Witness ==
    \E r \in completed :
        /\ route[r] = "/health"
        /\ ServiceState = "Draining"
        /\ deps["database"] = "down"
        /\ servedAt[r] > startTime
        /\ resp[r] = healthCheck(servedAt[r])

C21_ReadyReflectsDependencies ==
    \A r \in completed :
        route[r] = "/ready" =>
            resp[r].code = IF \A d \in Dependencies : deps[d] = "up" THEN 200 ELSE 503

(***************************************************************************)
(* C22.  Uptime is non-decreasing: of two /api/v1/status or /metrics       *)
(* requests served by the same instance at times t1 < t2, the later one    *)
(* reports an uptime at least as large, and both uptimes are measured      *)
(* from the same start time.                                               *)
(***************************************************************************)
UptimeRoutes == {"/api/v1/status", "/metrics"}

UptimeOf(r) ==
    IF route[r] = "/metrics" THEN resp[r].body.dahlia_uptime_seconds
                             ELSE resp[r].body.uptime

C22_UptimeNonDecreasing ==
    \A r1, r2 \in completed :
        (route[r1] \in UptimeRoutes /\ route[r2] \in UptimeRoutes
            /\ servedAt[r1] < servedAt[r2])
        => /\ UptimeOf(r1) <= UptimeOf(r2)
           /\ servedAt[r1] - UptimeOf(r1) = servedAt[r2] - UptimeOf(r2)

C22_Witness ==
    \E r1, r2 \in completed :
        /\ route[r1] = "/api/v1/status"
        /\ route[r2] = "/metrics"
        /\ servedAt[r1] < servedAt[r2]
        /\ UptimeOf(r1) < UptimeOf(r2)

(***************************************************************************)
(* C23.  Serving requests leaves shared state unchanged: accepting and     *)
(* answering a request changes neither the Configuration, the route table  *)
(* (the five GET bindings, in their order), the start time, the lifecycle  *)
(* state nor the logger's output destination, and the first three and the  *)
(* destination are throughout what they were after startup.                *)
(***************************************************************************)
RequestStep ==
    \E r \in ApiReqs : ApiServe(r) \/ \E rt \in Routes : ApiAccept(r, rt)

AsAfterStartup ==
    /\ cfg = << Load(env) >>
    /\ startTime = 0
    /\ logDest = "stderr"
    /\ [i \in 1..Len(routeTable) |-> << routeTable[i].method, routeTable[i].path >>]
          = << << "GET", "/health" >>, << "GET", "/ready" >>,
               << "GET", "/api/v1/status" >>, << "GET", "/api/v1/info" >>,
               << "GET", "/metrics" >> >>

C23_ServingLeavesSharedState ==
    /\ []AsAfterStartup
    /\ [][RequestStep =>
            /\ cfg' = cfg
            /\ routeTable' = routeTable
            /\ startTime' = startTime
            /\ logDest' = logDest
            /\ ServiceState' = ServiceState]_vars

C23_Witness ==
    /\ AsAfterStartup
    /\ \E r1, r2 \in completed :
          /\ route[r1] = "/api/v1/info"
          /\ route[r2] = "/metrics"
          /\ resp[r1].code = 200
          /\ resp[r2].code = 200

(***************************************************************************)
(* C24.  The listener is bound to the port of the resolved Configuration:  *)
(* for every PORT value that Load accepts, the service in state Serving    *)
(* listens on that port and on no other.                                   *)
(***************************************************************************)
C24_ListenerOnConfiguredPort ==
    ServiceState = "Serving" => boundPort = << cfg[1].Port >>

(***************************************************************************)
(* C25.  A shutdown timeout is always logged before the non-zero exit: in  *)
(* every run that ends in FailedShutdown the fatal "forced to shutdown"    *)
(* record has been written when the process exits with status 1, at every  *)
(* configured log level, and "Server exited" is never written.             *)
(***************************************************************************)
Emitted(msg) == {i \in 1..Len(logOut) : logOut[i].msg = msg}

C25_TimeoutLogged ==
    ServiceState = "FailedShutdown" =>
        /\ exitStatus = "exit1"
        /\ Emitted("Server forced to shutdown:") # {}
        /\ Emitted("Server exited") = {}

C25_Witness ==
    /\ ServiceState = "FailedShutdown"
    /\ level = ERROR
    /\ exitStatus = "exit1"
    /\ logOut[Len(logOut)].msg = "Server forced to shutdown:"

(***************************************************************************)
(* C26.  Draining is entered only from Serving, and Stopped only from      *)
(* Draining: no run reaches Stopped without having been in Serving, even   *)
(* when the signal arrives before the serve loop has bound the listener.   *)
(***************************************************************************)
C26_DrainOnlyFromServing ==
    [][/\ (ServiceState' = "Draining" /\ ServiceState # "Draining")
              => ServiceState = "Serving"
       /\ (ServiceState' = "Stopped" /\ ServiceState # "Stopped")
              => (ServiceState = "Draining" /\ boundPort # << >>)]_vars

(***************************************************************************)
(* C27.  No termination signal is lost while Serving: a signal delivered   *)
(* in Serving leads to Draining, also when it is delivered before main     *)
(* has registered its signal channel; the process is never terminated      *)
(* from Serving without passing through Draining.                          *)
(***************************************************************************)
C27_NoExitFromServing ==
    [][(Alive /\ ServiceState = "Serving") => exitStatus' = "running"]_vars

SignalReceived == mainPc \notin {"load", "newLogger", "setup", "notify", "wait"}

ExitedRecordInOrder ==
    /\ Cardinality(Emitted("Server exited")) <= 1
    /\ \A j \in Emitted("Server exited") :
          /\ ServiceState = "Stopped"
          /\ inflight = {}
          /\ \E i \in Emitted("Shutting down server...") : i < j
    /\ (ServiceState = "Stopped" /\ ~Alive) => Emitted("Server exited") # {}

C30_StoppedIsQuiet ==
    ServiceState = "Stopped" =>
        /\ inflight = {}
        /\ accepted = completed
        /\ aborted = {}
        /\ listener # "open"
        /\ boundPort # << >> => listener = "closed"

C30_Witness ==
    /\ ServiceState = "Stopped"
    /\ exitStatus = "exit0"
    /\ listener = "closed"
    /\ completed = Reqs
    /\ delivered[1][2] = "Serving"

(***************************************************************************)
(* C31.  In the program as composed, Error is never called: in every       *)
(* reachable state the output destination of the standard logger is its    *)
(* initial one, no thread is inside an Error call, and no record has gone  *)
(* through Error or to another destination.                                *)
(***************************************************************************)
C31_ErrorNeverCalled ==
    /\ logDest = "stderr"
    /\ \A t \in Threads : thr[t] = NoCall
    /\ \A i \in 1..Len(logOut) :
          logOut[i].tag # "[ERROR]" /\ logOut[i].dest = "stderr"

C31_Witness ==
    /\ ServiceState = "FailedShutdown"
    /\ exitStatus = "exit1"
    /\ completed # {}
    /\ aborted # {}
    /\ Len(logOut) = 3
    /\ logDest = "stderr"

(***************************************************************************)
(* C32.  Error is never suppressed.  Whatever name the logger was          *)
(* configured with (debug, info, error, a name that is no level, or the    *)
(* empty name), an Error call passes its level test and its write appends  *)
(* an [ERROR] record.  A Debug call writes only when the configured name   *)
(* is debug, and an Info call writes unless the configured name is error,  *)
(* that is, at the levels debug and info.                                  *)
(***************************************************************************)
C32_ErrorNeverSuppressed ==
    [][\A t \in Threads :
          /\ ErrorEnter(t) => thr'[t].pc = "redirect" /\ logOut' = logOut
          /\ ErrorWrite(t) => thr[t].op = "error" /\ Wrote("[ERROR]")
          /\ CallDebug(t) =>
                IF SameWord(levelName, NameDebug) THEN Wrote("[DEBUG]")
                                                  ELSE logOut' = logOut
          /\ CallInfo(t) =>
                IF SameWord(levelName, NameError)
                  THEN logOut' = logOut
                  ELSE Wrote("[INFO]") /\ level \in {DEBUG, INFO}]_vars

C32_Witness ==
    /\ SameWord(levelName, NameError)
    /\ level = ERROR
    /\ thr[1].op = "info"
    /\ thr[2].op = "error"
    /\ thr[2].pc = "restore"
    /\ Len(logOut) = 1
    /\ logOut[1].tag = "[ERROR]"

(***************************************************************************)
(* C33.  The configured HOST has no effect on the listener.  The           *)
(* configuration of a run differs from that of the run with HOST unset     *)
(* only in its Host field, and whatever HOST is, the listener is bound on  *)
(* all interfaces, on a port that the run with HOST unset binds as well:   *)
(* the configured port.                                                    *)
(***************************************************************************)
HostUnset == Load([env EXCEPT !["HOST"] = Unset])

C34_RequestsTotalIsZero ==
    \A r \in completed :
        route[r] = "/metrics" => resp[r].body.dahlia_requests_total = 0

C34_Witness ==
    \E r1, r2 \in completed :
        /\ r1 # r2
        /\ route[r1] = "/metrics"
        /\ route[r2] = "/metrics"
        /\ servedAt[r1] < servedAt[r2]
        /\ resp[r1].body.dahlia_requests_total = 0
        /\ resp[r2].body.dahlia_requests_total = 0

====
